---------------------------- MODULE Spec2Model ----------------------------
(***************************************************************************)
(* Model of packages/lib/src/database.ts: the JSON map codec               *)
(* (mapToObject, loadJsonAsMap, saveMapAsJson, loadJsonArrayAsMap,         *)
(* saveMapAsJsonArray) and the ItemDatabase ledger.                        *)
(*                                                                         *)
(* JavaScript values are records [k, n, s] with the same three fields so   *)
(* that any two of them can be compared:                                   *)
(*   k = "num"   a finite number n          k = "inf"   n = 1: Infinity,   *)
(*   k = "nan"   NaN                                    n = -1: -Infinity  *)
(*   k = "str"   the string s               k = "undef" undefined          *)
(*   k = "null"  null                       k = "fn"    a function whose   *)
(*   k = "obj"   an object named s                      source text is s   *)
(* -0 is not distinguished from 0 (no operation modelled here tells them   *)
(* apart: -0 !== 0 is false, !(-0) is true, JSON.stringify(-0) is "0").    *)
(* A plain object is the sequence of its own properties <<key, value>> in  *)
(* property order; a Map is the sequence of its entries in insertion order.*)
(***************************************************************************)
EXTENDS Integers, Sequences, FiniteSets, TLC

VARIABLES
    built,      \* ledger: "ok" once the constructor returned, "threw" if it threw
    items,      \* ledger: ItemDatabase._items, a Map name -> quality record
    lastErr,    \* ledger: the message of the error the last call threw, "" if none
    touched,    \* ledger: names in the seed or passed to a successful addItem/removeItem
    fs,         \* codec: the file at each path
    result,     \* codec: what the last load call settled with
    saved       \* codec: the map handed to the last save call, while its file is intact

ledgerVars == <<built, items, lastErr, touched>>
codecVars == <<fs, result, saved>>
vars == <<built, items, lastErr, touched, fs, result, saved>>

-----------------------------------------------------------------------------
(* Bounds *)

\* Largest magnitude of a finite count kept in the ledger.
MaxCount == 2

-----------------------------------------------------------------------------
(* JavaScript values *)

Num(i) == [k |-> "num", n |-> i, s |-> ""]
PosInf == [k |-> "inf", n |-> 1, s |-> ""]
NegInf == [k |-> "inf", n |-> -1, s |-> ""]
NaN == [k |-> "nan", n |-> 0, s |-> ""]
Str(t) == [k |-> "str", n |-> 0, s |-> t]
Undefined == [k |-> "undef", n |-> 0, s |-> ""]
Null == [k |-> "null", n |-> 0, s |-> ""]
\* Object.prototype.constructor: the function Object.
FnObject == [k |-> "fn", n |-> 0, s |-> "function Object() { [native code] }"]
\* Object.prototype itself (what the inherited __proto__ getter returns).
ObjectPrototype == [k |-> "obj", n |-> 0, s |-> "Object.prototype"]

TypeOf(v) ==
    CASE v.k \in {"num", "inf", "nan"} -> "number"
      [] v.k = "str" -> "string"
      [] v.k = "undef" -> "undefined"
      [] v.k = "fn" -> "function"
      [] OTHER -> "object"

IsNaN(v) == v.k = "nan"

\* ToBoolean(v) = false
Falsy(v) ==
    \/ v.k \in {"undef", "null", "nan"}
    \/ v.k = "num" /\ v.n = 0
    \/ v.k = "str" /\ v.s = ""

\* v !== 0
StrictNeqZero(v) == ~(v.k = "num" /\ v.n = 0)

\* Number::toString, and ToString of the other values that reach a +.
JsToString(v) ==
    CASE v.k = "num" -> ToString(v.n)
      [] v.k = "inf" -> IF v.n = 1 THEN "Infinity" ELSE "-Infinity"
      [] v.k = "nan" -> "NaN"
      [] v.k = "undef" -> "undefined"
      [] v.k = "null" -> "null"
      [] v.k = "obj" -> "[object Object]"
      [] OTHER -> v.s

\* IEEE-754 addition of two numbers (finite values stay far below 2^53: exact).
NumAdd(x, y) ==
    CASE x.k = "nan" \/ y.k = "nan" -> NaN
      [] x.k = "inf" /\ y.k = "inf" -> IF x.n = y.n THEN x ELSE NaN
      [] x.k = "inf" -> x
      [] y.k = "inf" -> y
      [] OTHER -> Num(x.n + y.n)

\* ToNumber of the primitives that are not numbers.
ToNumber(v) ==
    CASE TypeOf(v) = "number" -> v
      [] v.k = "null" -> Num(0)
      [] OTHER -> NaN

\* x + y: string concatenation as soon as one side's primitive is a string
\* (functions and objects convert to strings), numeric addition otherwise.
JsAdd(x, y) ==
    IF x.k \in {"str", "fn", "obj"} \/ y.k \in {"str", "fn", "obj"}
    THEN Str(JsToString(x) \o JsToString(y))
    ELSE NumAdd(ToNumber(x), ToNumber(y))

\* -count, for a count that passed checkCount
Neg(v) ==
    CASE v.k = "num" -> Num(0 - v.n)
      [] v.k = "inf" -> [v EXCEPT !.n = 0 - v.n]
      [] OTHER -> NaN

\* x ?? d
Coalesce(x, d) == IF x.k \in {"undef", "null"} THEN d ELSE x

-----------------------------------------------------------------------------
(* Plain objects and Maps *)

\* The array index a canonical numeric string names, -1 for any other key.
\* Own property keys iterate array indices first, ascending, then the other
\* strings in creation order.
ArrayIndex(key) ==
    CASE key = "0" -> 0
      [] key = "1" -> 1
      [] key = "2" -> 2
      [] OTHER -> -1

ObjHas(o, key) == \E i \in DOMAIN o : o[i][1] = key

ObjOwn(o, key) == o[CHOOSE i \in DOMAIN o : o[i][1] = key][2]

\* What a plain object inherits from Object.prototype under `key`.
ProtoGet(key) ==
    CASE key = "constructor" -> FnObject
      [] key = "__proto__" -> ObjectPrototype
      [] OTHER -> Undefined

\* o[key]: the own property, else the one inherited from Object.prototype
ObjGet(o, key) == IF ObjHas(o, key) THEN ObjOwn(o, key) ELSE ProtoGet(key)

\* Where a new own property `key` goes in the property order of o.
InsertAt(o, key) ==
    IF ArrayIndex(key) >= 0
    THEN Cardinality({i \in DOMAIN o :
             ArrayIndex(o[i][1]) >= 0 /\ ArrayIndex(o[i][1]) < ArrayIndex(key)}) + 1
    ELSE Len(o) + 1

\* CreateDataProperty: { [key]: v }, JSON.parse, Object.entries -> Map
ObjDefine(o, key, v) ==
    IF ObjHas(o, key)
    THEN [i \in DOMAIN o |-> IF o[i][1] = key THEN <<key, v>> ELSE o[i]]
    ELSE LET p == InsertAt(o, key)
         IN  SubSeq(o, 1, p - 1) \o <<<<key, v>>>> \o SubSeq(o, p, Len(o))

\* o[key] = v on a plain object whose prototype is Object.prototype: an own
\* property is overwritten; "__proto__" otherwise reaches the inherited setter,
\* which defines no own property (it changes the prototype, or does nothing
\* for a primitive v); any other key becomes a new own property.
ObjAssign(o, key, v) ==
    IF ~ObjHas(o, key) /\ key = "__proto__" THEN o ELSE ObjDefine(o, key, v)

MapHas(m, key) == \E i \in DOMAIN m : m[i][1] = key

MapGet(m, key) == m[CHOOSE i \in DOMAIN m : m[i][1] = key][2]

\* Map.prototype.set: an existing key keeps its place, a new one goes last.
MapSet(m, key, v) ==
    IF MapHas(m, key)
    THEN [i \in DOMAIN m |-> IF m[i][1] = key THEN <<key, v>> ELSE m[i]]
    ELSE Append(m, <<key, v>>)

MapKeys(m) == {m[i][1] : i \in DOMAIN m}

-----------------------------------------------------------------------------
(* ItemDatabase *)

checkName(name) == IF TypeOf(name) # "string" THEN "name must be a string" ELSE ""

checkCount(count) ==
    IF TypeOf(count) # "number" \/ IsNaN(count) THEN "count must be a number" ELSE ""

checkQuality(quality) ==
    IF TypeOf(quality) # "string" THEN "quality must be a string" ELSE ""

\* The first error among the checks run in order, "" if all pass.
FirstError(errs) ==
    IF \E i \in DOMAIN errs : errs[i] # ""
    THEN errs[CHOOSE i \in DOMAIN errs :
                  errs[i] # "" /\ \A j \in 1..(i - 1) : errs[j] = ""]
    ELSE ""

\* A snapshot value: a bare number (kind "number"), a quality record (kind
\* "object") or null.
Bare(v) == [kind |-> "number", num |-> v, rec |-> <<>>]
Rec(r) == [kind |-> "object", num |-> Undefined, rec |-> r]
NullEntry == [kind |-> "null", num |-> Undefined, rec |-> <<>>]

\* One pass of the constructor's loop over Object.entries(serialized), from
\* entry i on, with `acc` the Map built so far.
RECURSIVE ConstructFrom(_, _, _)
ConstructFrom(entries, i, acc) ==
    IF i > Len(entries) THEN [err |-> "", items |-> acc]
    ELSE
        LET name == entries[i][1]
            sval == entries[i][2]
            qualities == IF sval.kind = "number"
                         THEN <<<<"normal", sval.num>>>>
                         ELSE sval.rec
            errs == <<checkName(Str(name))>>
                    \o (IF sval.kind = "null"
                        THEN <<"Cannot convert undefined or null to object">>
                        ELSE [j \in DOMAIN qualities |-> checkCount(qualities[j][2])])
        IN  IF FirstError(errs) # ""
            THEN [err |-> FirstError(errs), items |-> <<>>]
            ELSE ConstructFrom(entries, i + 1, MapSet(acc, name, qualities))

\* new ItemDatabase(serialized): the error thrown ("" if none) and _items.
\* (The Map keeps the snapshot's own quality records; the model keeps values.)
Constructor(serialized) ==
    IF ~serialized.given THEN [err |-> "", items |-> <<>>]
    ELSE ConstructFrom(serialized.entries, 1, <<>>)

\* getItemCount(name, quality), for a string name and quality
getItemCount(its, name, quality) ==
    LET stored == IF MapHas(its, name)
                  THEN ObjGet(MapGet(its, name), quality)
                  ELSE Undefined
    IN  IF Falsy(stored) THEN Num(0) ELSE stored

\* addItem with checkQuality run only after the Map was written.
addItemChecksQualityLast(its, name, count, quality) ==
    LET err == FirstError(<<checkName(name), checkCount(count)>>)
        key == JsToString(quality)
        written == IF ~MapHas(its, name.s)
                   THEN MapSet(its, name.s, ObjDefine(<<>>, key, count))
                   ELSE MapSet(its, name.s,
                            ObjAssign(MapGet(its, name.s), key,
                                JsAdd(Coalesce(ObjGet(MapGet(its, name.s), key), Num(0)),
                                      count)))
    IN  IF err # "" THEN [err |-> err, items |-> its]
        ELSE [err |-> checkQuality(quality), items |-> written]

\* addItem that drops an item from the Map once the count it wrote is 0.
addItemPrunesZero(its, name, count, quality) ==
    LET err == FirstError(<<checkName(name), checkCount(count), checkQuality(quality)>>)
        sum == IF MapHas(its, name.s)
               THEN JsAdd(Coalesce(ObjGet(MapGet(its, name.s), quality.s), Num(0)), count)
               ELSE count
        qualities == IF MapHas(its, name.s) THEN MapGet(its, name.s) ELSE <<>>
    IN  IF err # "" THEN [err |-> err, items |-> its]
        ELSE IF StrictNeqZero(sum)
        THEN [err |-> "", items |-> MapSet(its, name.s, ObjAssign(qualities, quality.s, sum))]
        ELSE [err |-> "", items |-> SelectSeq(its, LAMBDA e : e[1] # name.s)]

\* addItem(name, count, quality) on the Map `its`: the error thrown ("" if
\* none) and the Map afterwards.
addItem(its, name, count, quality) ==
    LET err == FirstError(<<checkName(name), checkCount(count), checkQuality(quality)>>)
    IN  IF err # "" THEN [err |-> err, items |-> its]
        ELSE IF ~MapHas(its, name.s)
        THEN [err |-> "", items |-> MapSet(its, name.s, ObjDefine(<<>>, quality.s, count))]
        ELSE
            LET qualities == MapGet(its, name.s)
                currentCount == Coalesce(ObjGet(qualities, quality.s), Num(0))
            IN  [err |-> "",
                 items |-> MapSet(its, name.s,
                               ObjAssign(qualities, quality.s, JsAdd(currentCount, count)))]

\* removeItem(name, count, quality)
removeItem(its, name, count, quality) ==
    IF checkCount(count) # "" THEN [err |-> checkCount(count), items |-> its]
    ELSE addItem(its, name, Neg(count), quality)

\* serialize(): the loops run from item i, property j on; obj is the object
\* built so far.  When obj has no own property `name` but inherits one
\* (obj["constructor"] is the function Object), !obj[name] is false, no record
\* is created and obj[name][quality] = count lands on the inherited object:
\* `own` collects the property names written there.  That object is outside
\* the ledger and nothing in this module reads it back.
RECURSIVE SerializeFrom(_, _, _, _, _)
SerializeFrom(its, i, j, obj, own) ==
    IF i > Len(its) THEN [obj |-> obj, own |-> own]
    ELSE IF j > Len(its[i][2]) THEN SerializeFrom(its, i + 1, 1, obj, own)
    ELSE
        LET name == its[i][1]
            quality == its[i][2][j][1]
            count == its[i][2][j][2]
            \* if (!obj[name]) obj[name] = {}
            present == ObjHas(obj, name) \/ ~Falsy(ProtoGet(name))
            obj1 == IF present THEN obj ELSE ObjAssign(obj, name, <<>>)
        IN  IF ~StrictNeqZero(count) THEN SerializeFrom(its, i, j + 1, obj, own)
            ELSE IF ObjHas(obj1, name)
            THEN SerializeFrom(its, i, j + 1,
                     ObjDefine(obj1, name, ObjAssign(ObjOwn(obj1, name), quality, count)),
                     own)
            ELSE SerializeFrom(its, i, j + 1, obj1, own \cup {quality})

serialize(its) == SerializeFrom(its, 1, 1, <<>>, {}).obj

\* The serialized object as a constructor argument.
AsSnapshot(obj) ==
    [given |-> TRUE, entries |-> [i \in DOMAIN obj |-> <<obj[i][1], Rec(obj[i][2])>>]]

-----------------------------------------------------------------------------
(* The ledger as a state machine *)

Names == {"wood", "constructor"}
Qualities == {"normal", "rare"}

NoSnapshot == [given |-> FALSE, entries |-> <<>>]
Snapshot(entries) == [given |-> TRUE, entries |-> entries]

\* Constructor arguments: none, the legacy form, the quality-keyed
\* form, and snapshots the constructor rejects.
Seeds ==
    { NoSnapshot,
      Snapshot(<< <<"wood", Bare(Num(1))>> >>),
      Snapshot(<< <<"wood", Rec(<< <<"normal", Num(2)>>, <<"rare", Num(0)>> >>)>> >>),
      Snapshot(<< <<"constructor", Bare(Num(0))>> >>),
      Snapshot(<< <<"wood", Bare(NaN)>> >>),
      Snapshot(<< <<"wood", Bare(Num(1))>>,
                  <<"constructor", Rec(<< <<"normal", Str("1")>> >>)>> >>),
      Snapshot(<< <<"wood", NullEntry>> >>) }

\* Arguments that pass the checks of addItem and removeItem.
ValidCalls ==
    {<<Str(n), c, Str(q)>> :
        n \in Names,
        c \in {Num(-1), Num(0), Num(1), PosInf},
        q \in Qualities}

\* Arguments one or more of which fail a check: a non-string name, a count
\* that is NaN, a string or undefined, a non-string quality.
InvalidCalls ==
    { <<Num(7), Num(1), Str("normal")>>,
      <<Str("wood"), NaN, Str("normal")>>,
      <<Str("wood"), Str("1"), Str("normal")>>,
      <<Str("wood"), Undefined, Str("normal")>>,
      <<Str("wood"), Num(1), Undefined>>,
      <<Str("wood"), Num(1), Num(0)>>,
      <<Num(7), NaN, Undefined>>,
      <<Str("constructor"), Num(1), Undefined>>,
      <<Str("wood"), Str("1"), Undefined>> }

\* Every stored count is inside the model's bounds.
InBounds(its) ==
    \A i \in DOMAIN its : \A j \in DOMAIN its[i][2] :
        LET v == its[i][2][j][2]
        IN  v.k = "num" => v.n \in (0 - MaxCount)..MaxCount

\* The state after new ItemDatabase(serialized): the ledger, or nothing when
\* the constructor threw (no call can follow).  The codec is not in use.
InitLedger ==
    \E serialized \in Seeds :
        LET r == Constructor(serialized)
        IN  /\ built = IF r.err = "" THEN "ok" ELSE "threw"
            /\ items = r.items
            /\ lastErr = r.err
            /\ touched = IF r.err = "" THEN MapKeys(r.items) ELSE {}
            /\ fs = <<>>
            /\ result = <<>>
            /\ saved = <<>>

\* The outcome r of a call takes effect (a call that would push a finite count
\* past MaxCount is not made).
Applied(r, name) ==
    /\ InBounds(r.items)
    /\ items' = r.items
    /\ lastErr' = r.err
    /\ touched' = IF r.err = "" THEN touched \cup {name.s} ELSE touched
    /\ UNCHANGED built
    /\ UNCHANGED codecVars

AddItem(name, count, quality) ==
    /\ built = "ok"
    /\ Applied(addItem(items, name, count, quality), name)

RemoveItem(name, count, quality) ==
    /\ built = "ok"
    /\ Applied(removeItem(items, name, count, quality), name)

\* Calls whose arguments all pass the checks.
NextLedger ==
    \/ \E call \in ValidCalls : AddItem(call[1], call[2], call[3])
    \/ \E call \in ValidCalls : RemoveItem(call[1], call[2], call[3])

\* Calls with arguments that fail a check, among a few that pass.
CheckedCalls == InvalidCalls \cup {<<Str(n), Num(1), Str("normal")>> : n \in Names}

NextChecked ==
    \/ \E call \in CheckedCalls : AddItem(call[1], call[2], call[3])
    \/ \E call \in CheckedCalls : RemoveItem(call[1], call[2], call[3])

SpecLedger == InitLedger /\ [][NextLedger]_vars

SpecChecked == InitLedger /\ [][NextChecked]_vars

-----------------------------------------------------------------------------
(* JSON: values one level deep, JSON.stringify and JSON.parse *)

\* A value held in a Map or in an array: a primitive, a plain object whose
\* properties hold primitives, or an (empty) array.
Prim(v) == [kind |-> "prim", val |-> v, props |-> <<>>]
Obj(props) == [kind |-> "object", val |-> Undefined, props |-> props]
Arr == [kind |-> "array", val |-> Undefined, props |-> <<>>]

\* helpers.basicType: like typeof, with "null" for null and "array" for arrays.
basicType(x) ==
    CASE x.kind = "object" -> "object"
      [] x.kind = "array" -> "array"
      [] x.val.k = "null" -> "null"
      [] OTHER -> TypeOf(x.val)

\* JSON.stringify leaves out a property whose value is undefined or a function
\* (and writes null for such an array element).
Omitted(v) == v.k \in {"undef", "fn"}

\* JSON.stringify writes null for NaN and the infinities.
JsonScalar(v) == IF v.k \in {"nan", "inf", "undef", "fn"} THEN Null ELSE v

\* The properties JSON.stringify writes for an object of primitives, in order.
StringifyProps(props) ==
    LET kept == SelectSeq(props, LAMBDA e : ~Omitted(e[2]))
    IN  [i \in DOMAIN kept |-> <<kept[i][1], JsonScalar(kept[i][2])>>]

\* The text of one value, as the JSON value it denotes.
StringifyValue(x) ==
    CASE x.kind = "object" -> Obj(StringifyProps(x.props))
      [] x.kind = "array" -> Arr
      [] OTHER -> Prim(JsonScalar(x.val))

\* A JSON text: not JSON at all (kind "invalid"), or the value it denotes with
\* the members of a top-level object (props) or array (elems) in text order.
InvalidText == [kind |-> "invalid", val |-> Undefined, props |-> <<>>, elems |-> <<>>]
ObjectText(props) == [kind |-> "object", val |-> Undefined, props |-> props, elems |-> <<>>]
ArrayText(elems) == [kind |-> "array", val |-> Undefined, props |-> <<>>, elems |-> elems]
PrimText(v) == [kind |-> "prim", val |-> v, props |-> <<>>, elems |-> <<>>]

\* JSON.stringify(obj, null, "\t") of a plain object
StringifyObject(obj) ==
    LET kept == SelectSeq(obj, LAMBDA e : ~(e[2].kind = "prim" /\ Omitted(e[2].val)))
    IN  ObjectText([i \in DOMAIN kept |-> <<kept[i][1], StringifyValue(kept[i][2])>>])

\* JSON.stringify(array, null, "\t")
StringifyArray(array) == ArrayText([i \in DOMAIN array |-> StringifyValue(array[i])])

\* The object JSON.parse builds from members in text order: each is defined in
\* turn, so a repeated key keeps the last value and array-index keys sort first.
RECURSIVE DefineAll(_, _, _)
DefineAll(members, i, obj) ==
    IF i > Len(members) THEN obj
    ELSE DefineAll(members, i + 1, ObjDefine(obj, members[i][1], members[i][2]))

ParseValue(x) ==
    IF x.kind = "object" THEN Obj(DefineAll(x.props, 1, <<>>)) ELSE x

\* JSON.parse(text): a SyntaxError, or the value: kind, and the own properties
\* of a top-level object (obj) or the elements of a top-level array (elems).
Parse(text) ==
    CASE text.kind = "invalid" ->
             [err |-> "SyntaxError", kind |-> "prim", val |-> Undefined,
              obj |-> <<>>, elems |-> <<>>]
      [] text.kind = "object" ->
             [err |-> "", kind |-> "object", val |-> Undefined,
              obj |-> DefineAll([i \in DOMAIN text.props |->
                                    <<text.props[i][1], ParseValue(text.props[i][2])>>],
                                1, <<>>),
              elems |-> <<>>]
      [] text.kind = "array" ->
             [err |-> "", kind |-> "array", val |-> Undefined, obj |-> <<>>,
              elems |-> [i \in DOMAIN text.elems |-> ParseValue(text.elems[i])]]
      [] OTHER ->
             [err |-> "", kind |-> "prim", val |-> text.val, obj |-> <<>>, elems |-> <<>>]

-----------------------------------------------------------------------------
(* The map codec *)

\* A file: absent, present but unreadable, or present with a text.
Missing == [state |-> "missing", text |-> InvalidText]
Unreadable == [state |-> "unreadable", text |-> InvalidText]
Present(text) == [state |-> "present", text |-> text]

\* An error of the file system (it carries a code) and an Error thrown by
\* JSON.parse or by the loaders themselves (its code is undefined).
NoError == [code |-> "", message |-> ""]
FsError(code) == [code |-> code, message |-> code]
Thrown(message) == [code |-> "", message |-> message]

\* fs.readFile: the error it fails with, or the content.
readFile(file) ==
    CASE file.state = "missing" -> [err |-> FsError("ENOENT"), text |-> InvalidText]
      [] file.state = "unreadable" -> [err |-> FsError("EACCES"), text |-> InvalidText]
      [] OTHER -> [err |-> NoError, text |-> file.text]

\* How a call settled.
Resolved(op, map) == [op |-> op, status |-> "resolved", err |-> "", map |-> map]
Rejected(op, err) == [op |-> op, status |-> "rejected", err |-> err, map |-> <<>>]

\* mapToObject: the error thrown ("" if none) and the object, built from entry i on.
RECURSIVE mapToObjectFrom(_, _, _)
mapToObjectFrom(map, i, obj) ==
    IF i > Len(map) THEN [err |-> "", obj |-> obj]
    ELSE IF TypeOf(map[i][1]) # "string"
    THEN [err |-> "Expected all keys to be string but got " \o TypeOf(map[i][1]),
          obj |-> <<>>]
    ELSE mapToObjectFrom(map, i + 1, ObjAssign(obj, map[i][1].s, map[i][2]))

mapToObject(map) == mapToObjectFrom(map, 1, <<>>)

\* A catch clause that turns every error into an empty Map.
OnLoadErrorReturnsEmpty(op, err) == Resolved(op, <<>>)

\* The catch clause of both loaders: ENOENT becomes an empty Map, anything
\* else is thrown again.
OnLoadError(op, err) ==
    IF err.code = "ENOENT" THEN Resolved(op, <<>>) ELSE Rejected(op, err.message)

\* new Map(Object.entries(parsed))
EntriesToMap(obj) == [i \in DOMAIN obj |-> <<Str(obj[i][1]), obj[i][2]>>]

\* loadJsonAsMap(filePath), given the file at filePath.  The call reads the
\* file once and is synchronous from there on, so it is one step.
loadJsonAsMap(file) ==
    LET op == "loadJsonAsMap"
        content == readFile(file)
        parsed == Parse(content.text)
        type == basicType([kind |-> parsed.kind, val |-> parsed.val])
    IN  IF content.err # NoError THEN OnLoadError(op, content.err)
        ELSE IF parsed.err # "" THEN OnLoadError(op, Thrown(parsed.err))
        ELSE IF type # "object"
        THEN OnLoadError(op, Thrown("Expected object but got " \o type))
        ELSE Resolved(op, EntriesToMap(parsed.obj))

\* The loop of loadJsonArrayAsMap keeping the Map in a plain object: every id
\* becomes a string key.
RECURSIVE ArrayToMapStringKeys(_, _, _)
ArrayToMapStringKeys(elems, i, map) ==
    IF i > Len(elems) THEN [err |-> "", map |-> map]
    ELSE IF basicType(elems[i]) # "object"
    THEN [err |-> "Expected all elements to be objects", map |-> <<>>]
    ELSE IF ObjGet(elems[i].props, "id") = Undefined
    THEN [err |-> "Expected all elements to have an id property", map |-> <<>>]
    ELSE ArrayToMapStringKeys(elems, i + 1,
             MapSet(map, Str(JsToString(ObjGet(elems[i].props, "id"))), elems[i]))

\* The loop of loadJsonArrayAsMap from element i on: the error thrown, or the Map.
RECURSIVE ArrayToMapFrom(_, _, _)
ArrayToMapFrom(elems, i, map) ==
    IF i > Len(elems) THEN [err |-> "", map |-> map]
    ELSE IF basicType(elems[i]) # "object"
    THEN [err |-> "Expected all elements to be objects", map |-> <<>>]
    ELSE IF ObjGet(elems[i].props, "id") = Undefined
    THEN [err |-> "Expected all elements to have an id property", map |-> <<>>]
    ELSE ArrayToMapFrom(elems, i + 1, MapSet(map, ObjGet(elems[i].props, "id"), elems[i]))

ArrayToMap(elems) == ArrayToMapFrom(elems, 1, <<>>)

\* loadJsonArrayAsMap(filePath), given the file at filePath
loadJsonArrayAsMap(file) ==
    LET op == "loadJsonArrayAsMap"
        content == readFile(file)
        parsed == Parse(content.text)
        type == basicType([kind |-> parsed.kind, val |-> parsed.val])
        loaded == ArrayToMap(parsed.elems)
    IN  IF content.err # NoError THEN OnLoadError(op, content.err)
        ELSE IF parsed.err # "" THEN OnLoadError(op, Thrown(parsed.err))
        ELSE IF type # "array"
        THEN OnLoadError(op, Thrown("Expected array but got " \o type))
        ELSE IF loaded.err # "" THEN OnLoadError(op, Thrown(loaded.err))
        ELSE Resolved(op, loaded.map)

\* What saveMapAsJson hands to safeOutputFile: the error thrown before any
\* write ("" if none) and the text.
saveMapAsJson(map) ==
    [err |-> mapToObject(map).err, text |-> StringifyObject(mapToObject(map).obj)]

\* What saveMapAsJsonArray hands to safeOutputFile: [...map.values()] as text.
saveMapAsJsonArray(map) ==
    [err |-> "", text |-> StringifyArray([i \in DOMAIN map |-> map[i][2]])]

\* file_ops.safeOutputFile: the file is replaced as a whole; when the write
\* fails the file stays as it was and the error reaches the caller.
safeOutputFile(files, path, text, ok) ==
    IF ok THEN [files EXCEPT ![path] = Present(text)] ELSE files

-----------------------------------------------------------------------------
(* The codec as a state machine *)

Path == "db.json"

\* Maps handed to saveMapAsJson.
ObjectMaps ==
    { <<>>,
      << <<Str("a"), Prim(Num(1))>>, <<Str("b"), Prim(Str("x"))>> >>,
      << <<Str("b"), Prim(Num(1))>>, <<Str("a"), Prim(Null)>> >>,
      << <<Str("a"), Obj(<< <<"x", Num(1)>> >>)>>, <<Str("b"), Arr>> >>,
      << <<Str("2"), Prim(Num(1))>>, <<Str("1"), Prim(Num(2))>> >>,
      << <<Str("b"), Prim(Num(1))>>, <<Str("1"), Prim(Num(2))>> >>,
      << <<Str("__proto__"), Prim(Num(1))>> >>,
      << <<Str("a"), Prim(Undefined)>>, <<Str("b"), Prim(Num(1))>> >>,
      << <<Str("a"), Prim(NaN)>> >>,
      << <<Str("a"), Prim(Num(1))>>, <<Num(7), Prim(Num(2))>> >> }

\* Maps handed to saveMapAsJsonArray.
ArrayMaps ==
    { <<>>,
      << <<Num(1), Obj(<< <<"id", Num(1)>>, <<"x", Str("a")>> >>)>>,
         <<Num(2), Obj(<< <<"id", Num(2)>> >>)>> >>,
      << <<Num(2), Obj(<< <<"id", Num(2)>> >>)>>,
         <<Num(1), Obj(<< <<"id", Num(1)>> >>)>> >>,
      << <<Str("k"), Obj(<< <<"id", Str("1")>> >>)>>,
         <<Str("l"), Obj(<< <<"1", Null>>, <<"id", Num(1)>> >>)>> >>,
      << <<Num(1), Obj(<< <<"id", NaN>> >>)>> >>,
      << <<Num(1), Obj(<< <<"id", NaN>> >>)>>, <<Num(2), Obj(<< <<"id", Null>> >>)>> >>,
      << <<Num(1), Obj(<< <<"id", Num(1)>>, <<"x", Undefined>> >>)>> >>,
      << <<Num(1), Obj(<< <<"id", Undefined>> >>)>> >>,
      << <<Num(1), Obj(<< <<"x", Num(1)>> >>)>> >>,
      << <<Num(1), Obj(<< <<"id", Num(1)>>, <<"x", Num(1)>> >>)>>,
         <<Num(2), Obj(<< <<"id", Num(1)>>, <<"x", Num(2)>> >>)>> >>,
      << <<Num(1), Prim(Num(5))>> >> }

\* Files another program may leave at the path.
ForeignFiles ==
    { Missing,
      Unreadable,
      Present(InvalidText),
      Present(PrimText(Num(5))),
      Present(PrimText(Null)),
      Present(ObjectText(<< <<"b", Prim(Num(1))>>, <<"1", Prim(Num(2))>>,
                            <<"b", Prim(Num(3))>> >>)),
      Present(ArrayText(<< Prim(Num(1)), Prim(Num(2)), Prim(Num(3)) >>)),
      Present(ArrayText(<< Obj(<< <<"name", Str("x")>> >>) >>)),
      Present(ArrayText(<< Obj(<< <<"id", Num(1)>> >>), Prim(Null) >>)),
      Present(ArrayText(<< Obj(<< <<"id", Num(1)>> >>), Arr >>)),
      Present(ArrayText(<< Obj(<< <<"id", Num(1)>>, <<"x", Num(1)>> >>),
                           Obj(<< <<"id", Null>> >>),
                           Obj(<< <<"id", Num(1)>>, <<"x", Num(2)>> >>) >>)) }

NotSaved == [mode |-> "none", map |-> <<>>]

\* No file yet, no call made; the ledger is an empty one, not in use.
InitCodec ==
    /\ fs = [path \in {Path} |-> Missing]
    /\ result = Resolved("none", <<>>)
    /\ saved = NotSaved
    /\ built = "ok"
    /\ items = <<>>
    /\ lastErr = ""
    /\ touched = {}

\* await saveMapAsJson(Path, map); the write succeeds (ok) or fails.
SaveMapAsJson(map, ok) ==
    LET out == saveMapAsJson(map)
        op == "saveMapAsJson"
    IN  /\ IF out.err # ""
           THEN /\ result' = Rejected(op, out.err)
                /\ UNCHANGED <<fs, saved>>
           ELSE /\ fs' = safeOutputFile(fs, Path, out.text, ok)
                /\ result' = IF ok THEN Resolved(op, <<>>) ELSE Rejected(op, "EIO")
                /\ saved' = IF ok THEN [mode |-> "object", map |-> map] ELSE saved
        /\ UNCHANGED ledgerVars

\* await saveMapAsJsonArray(Path, map)
SaveMapAsJsonArray(map, ok) ==
    LET out == saveMapAsJsonArray(map)
        op == "saveMapAsJsonArray"
    IN  /\ fs' = safeOutputFile(fs, Path, out.text, ok)
        /\ result' = IF ok THEN Resolved(op, <<>>) ELSE Rejected(op, "EIO")
        /\ saved' = IF ok THEN [mode |-> "array", map |-> map] ELSE saved
        /\ UNCHANGED ledgerVars

\* await loadJsonAsMap(Path)
LoadJsonAsMap ==
    /\ result' = loadJsonAsMap(fs[Path])
    /\ UNCHANGED <<fs, saved>>
    /\ UNCHANGED ledgerVars

\* await loadJsonArrayAsMap(Path)
LoadJsonArrayAsMap ==
    /\ result' = loadJsonArrayAsMap(fs[Path])
    /\ UNCHANGED <<fs, saved>>
    /\ UNCHANGED ledgerVars

\* Another program replaces, removes or locks the file.
ForeignWrite(file) ==
    /\ fs' = [fs EXCEPT ![Path] = file]
    /\ saved' = NotSaved
    /\ UNCHANGED result
    /\ UNCHANGED ledgerVars

NextCodec ==
    \/ \E map \in ObjectMaps, ok \in BOOLEAN : SaveMapAsJson(map, ok)
    \/ \E map \in ArrayMaps, ok \in BOOLEAN : SaveMapAsJsonArray(map, ok)
    \/ LoadJsonAsMap
    \/ LoadJsonArrayAsMap
    \/ \E file \in ForeignFiles : ForeignWrite(file)

SpecCodec == InitCodec /\ [][NextCodec]_vars

-----------------------------------------------------------------------------
(* Properties of the codec *)

\* A value JSON.stringify and JSON.parse give back as it was: a finite
\* number, a string, null, an array, or an object of such primitives.
JsonPrimitive(v) == v.k \in {"num", "str", "null"}

JsonSerializable(x) ==
    CASE x.kind = "prim" -> JsonPrimitive(x.val)
      [] x.kind = "object" -> \A i \in DOMAIN x.props : JsonPrimitive(x.props[i][2])
      [] OTHER -> TRUE

\* C1: a Map with only string keys and JSON-serializable values, saved with
\* saveMapAsJson and then loaded with loadJsonAsMap from the same path, comes
\* back with the same keys, values and key order.
C1_ObjectMapRoundTrips ==
    ( /\ result.op = "loadJsonAsMap"
      /\ saved.mode = "object"
      /\ \A i \in DOMAIN saved.map :
             TypeOf(saved.map[i][1]) = "string" /\ JsonSerializable(saved.map[i][2]) )
    => (result.status = "resolved" /\ result.map = saved.map)

\* The text has a top-level array with an element that is not an object.
HasNonObjectElement(text) ==
    text.kind = "array" /\ \E i \in DOMAIN text.elems : text.elems[i].kind # "object"

\* The text has a top-level array with an object element that has no id member.
HasElementWithoutId(text) ==
    /\ text.kind = "array"
    /\ \E i \in DOMAIN text.elems :
           /\ text.elems[i].kind = "object"
           /\ \A j \in DOMAIN text.elems[i].props : text.elems[i].props[j][1] # "id"

\* C8: whatever file is at the path, both loaders resolve to an empty Map when
\* it does not exist, and reject, returning no Map, when it cannot be read,
\* is not JSON, has the wrong top-level type, or (array form) has an element
\* that is not an object or has no id.
C8_OnlyMissingFileGivesEmptyMap ==
    LET file == fs[Path]
        object == loadJsonAsMap(file)
        array == loadJsonArrayAsMap(file)
    IN  /\ file.state = "missing" =>
               /\ object = Resolved("loadJsonAsMap", <<>>)
               /\ array = Resolved("loadJsonArrayAsMap", <<>>)
        /\ (file.state = "unreadable"
               \/ (file.state = "present" /\ file.text.kind = "invalid")) =>
               /\ object.status = "rejected" /\ object.map = <<>>
               /\ array.status = "rejected" /\ array.map = <<>>
        /\ (file.state = "present" /\ file.text.kind # "object") =>
               object.status = "rejected" /\ object.map = <<>>
        /\ (file.state = "present"
               /\ (\/ file.text.kind # "array"
                   \/ HasNonObjectElement(file.text)
                   \/ HasElementWithoutId(file.text))) =>
               array.status = "rejected" /\ array.map = <<>>

\* A load has met a missing file and resolved to an empty Map.
C8_Witness ==
    /\ fs[Path] = Missing
    /\ result = Resolved("loadJsonArrayAsMap", <<>>)

\* The id of a value of an array-form Map.
IdOf(x) == ObjGet(x.props, "id")

\* Every value is an object with a defined id, and no two ids are the same.
ValuesHaveUniqueIds(map) ==
    /\ \A i \in DOMAIN map : map[i][2].kind = "object" /\ IdOf(map[i][2]) # Undefined
    /\ \A i, j \in DOMAIN map : i # j => IdOf(map[i][2]) # IdOf(map[j][2])

\* The Map of the same values, each under its own id, in the same order.
KeyedById(map) == [i \in DOMAIN map |-> <<IdOf(map[i][2]), map[i][2]>>]

\* C10 as stated: a Map whose values are objects with unique defined ids,
\* saved with saveMapAsJsonArray and then loaded with loadJsonArrayAsMap from
\* the same path, comes back as one entry per value, keyed by its id, equal to
\* the saved value, in the saved order.
C10_ArrayMapRoundTrips ==
    ( /\ result.op = "loadJsonArrayAsMap"
      /\ saved.mode = "array"
      /\ ValuesHaveUniqueIds(saved.map) )
    => (result.status = "resolved" /\ result.map = KeyedById(saved.map))

\* C10 amended: the same for a Map whose values are, besides, JSON-serializable
\* (their id included).
C10_SerializableArrayMapRoundTrips ==
    ( /\ result.op = "loadJsonArrayAsMap"
      /\ saved.mode = "array"
      /\ ValuesHaveUniqueIds(saved.map)
      /\ \A i \in DOMAIN saved.map : JsonSerializable(saved.map[i][2]) )
    => (result.status = "resolved" /\ result.map = KeyedById(saved.map))

\* Two serializable values saved under keys that are not their ids, loaded
\* back under their ids.
C10_Witness ==
    /\ result.op = "loadJsonArrayAsMap"
    /\ result.status = "resolved"
    /\ saved.mode = "array"
    /\ ValuesHaveUniqueIds(saved.map)
    /\ \A i \in DOMAIN saved.map : JsonSerializable(saved.map[i][2])
    /\ Len(saved.map) = 2
    /\ saved.map[1][1] # IdOf(saved.map[1][2])
    /\ result.map = KeyedById(saved.map)

-----------------------------------------------------------------------------
(* Properties of the ledger *)

\* get size()
size == Len(items)

\* Every count kept in the Map `its`, as <<name, quality, count>>.
Stored(its) ==
    UNION {{<<its[i][1], its[i][2][j][1], its[i][2][j][2]>> : j \in DOMAIN its[i][2]} :
              i \in DOMAIN its}

\* Every count of a serialized object, as <<name, quality, count>>.
Emitted(obj) == Stored(obj)

\* Qualities asked of getItemCount: those added, and one no call ever adds.
ProbeQualities == Qualities \cup {"constructor"}

\* C2: in every state reached from a valid snapshot by successful
\* addItem/removeItem calls, no stored count is NaN, and serialize() emits
\* no NaN count.
C2_NoCountIsNaN ==
    built = "ok" =>
        /\ \A e \in Stored(items) : ~IsNaN(e[3])
        /\ \A e \in Emitted(serialize(items)) : ~IsNaN(e[3])

\* C3: in every ledger state, for every name n, quality q and count c that
\* passes the checks, addItem(n, c, q) then removeItem(n, c, q) leaves
\* getItemCount(n, q) at the value it had before the two calls.
C3_AddThenRemoveRestores ==
    built = "ok" =>
        \A call \in ValidCalls :
            LET added == addItem(items, call[1], call[2], call[3])
                removed == removeItem(added.items, call[1], call[2], call[3])
            IN  /\ added.err = "" /\ removed.err = ""
                /\ getItemCount(removed.items, call[1].s, call[3].s)
                       = getItemCount(items, call[1].s, call[3].s)

\* C4: in every ledger state, serialize() holds exactly the (name, quality)
\* pairs whose stored count is not 0, each with its stored count, and no item
\* with an empty quality record.
C4_SerializeIsTheNonZeroCounts ==
    built = "ok" =>
        /\ Emitted(serialize(items)) = {e \in Stored(items) : StrictNeqZero(e[3])}
        /\ \A i \in DOMAIN serialize(items) : serialize(items)[i][2] # <<>>

\* C5: in every ledger state, a new ItemDatabase can be constructed from
\* serialize(), and serializing it gives the same output again.
C5_SerializeRoundTrips ==
    built = "ok" =>
        LET out == serialize(items)
            again == Constructor(AsSnapshot(out))
        IN  /\ again.err = ""
            /\ serialize(again.items) = out

\* C9: a ledger just constructed from a snapshot whose value for an item is a
\* bare number k answers k for that item's "normal" quality and 0 for every
\* other quality, and serialize() gives that item a quality-keyed record.
C9_LegacyNumberBecomesNormal ==
    \A serialized \in Seeds :
        (Constructor(serialized).err = "" /\ items = Constructor(serialized).items) =>
            \A i \in DOMAIN serialized.entries :
                LET name == serialized.entries[i][1]
                    sval == serialized.entries[i][2]
                IN  sval.kind = "number" =>
                        /\ getItemCount(items, name, "normal") = sval.num
                        /\ \A q \in ProbeQualities \ {"normal"} :
                               getItemCount(items, name, q) = Num(0)
                        /\ \A e \in Emitted(serialize(items)) :
                               e[1] = name => e[2] = "normal" /\ e[3] = sval.num

\* The call's arguments fail a check of addItem.
FailsAddItem(call) ==
    \/ TypeOf(call[1]) # "string"
    \/ TypeOf(call[2]) # "number" \/ IsNaN(call[2])
    \/ TypeOf(call[3]) # "string"

\* The call's arguments fail a check of removeItem named by the claim: a
\* count that is not a number, or a quality that is not a string.
FailsRemoveItem(call) ==
    \/ TypeOf(call[2]) # "number"
    \/ TypeOf(call[3]) # "string"

\* C6: addItem with a non-string name, a non-numeric or NaN count or a
\* non-string quality, and removeItem with a non-numeric count or a
\* non-string quality, throw and leave the stored counts, the resident names
\* and size as they were; and whenever a call has thrown, the ledger is as it
\* was before the call.
C6_FailedCallChangesNothing ==
    /\ [](built = "ok" =>
            \A call \in CheckedCalls :
                /\ FailsAddItem(call) =>
                       LET r == addItem(items, call[1], call[2], call[3])
                       IN  r.err # "" /\ r.items = items
                /\ FailsRemoveItem(call) =>
                       LET r == removeItem(items, call[1], call[2], call[3])
                       IN  r.err # "" /\ r.items = items)
    /\ [][lastErr' # "" => (items' = items /\ size' = size /\ touched' = touched)]_vars

\* A call has thrown on its quality argument while the ledger holds items.
C6_Witness ==
    /\ built = "ok"
    /\ lastErr = "quality must be a string"
    /\ items # <<>>

\* Every count of the item at place i of the Map is 0.
AllZero(its, i) == \A j \in DOMAIN its[i][2] : ~StrictNeqZero(its[i][2][j][2])

\* C7: size is the number of distinct names that were in the seed snapshot or
\* were passed to a successful addItem/removeItem; it never decreases; an item
\* whose counts are all 0 is absent from serialize() and still counted.
C7_SizeCountsEveryNameSeen ==
    /\ [](built = "ok" =>
            /\ size = Cardinality(touched)
            /\ MapKeys(items) = touched
            /\ \A i \in DOMAIN items :
                   AllZero(items, i) => ~ObjHas(serialize(items), items[i][1]))
    /\ [][size' >= size]_vars

\* An item added and removed again: all its counts are 0, serialize() leaves
\* it out, and size still counts it beside another item.
C7_Witness ==
    /\ built = "ok"
    /\ size = 2
    /\ \E i \in DOMAIN items :
           /\ AllZero(items, i)
           /\ items[i][2] # <<>>
           /\ ~ObjHas(serialize(items), items[i][1])
    /\ Len(serialize(items)) = 1

=============================================================================
